---- MODULE Spec2Model ----
(***************************************************************************)
(* Moving-average crossover backtester (src/moving_average_bt.py).         *)
(*                                                                         *)
(* Spec     : one call of calculate_signals, one loop iteration per step,  *)
(*            followed by calculate_returns for that single ticker.        *)
(* SpecMain : main's batch over the ticker list (fetch, signal history,    *)
(*            backtesting results, totals).                                *)
(*                                                                         *)
(* A number carries the IEEE 754 float64 the code computes and the value   *)
(* the same expression has in exact arithmetic; NaN is the value pandas    *)
(* gives a rolling mean with too little history.                           *)
(* Python indices are 0-based: iloc(s, i) is s[i + 1] of the TLA+ sequence.*)
(***************************************************************************)
EXTENDS Integers, Sequences, FiniteSets, TLC

\* ------------------------------------------------------------------ bounds
MaxLen == 5
MaxWindow == 3
MainMaxLen == 2

Prices == {10, 11, 12}
Investments == {100, 1000}
Windows == 1..MaxWindow

\* ------------------------------------------------------------- arithmetic

\* TLC integers are 32-bit; the 53-bit significands of float64 and their
\* products are held as little-endian sequences of 14-bit limbs, without
\* high zero limbs (<< >> is 0).
LimbBits == 14

Base == 2 ^ LimbBits

\* s without its high zero limbs
BigTrim(s) ==
    LET nonzero == {k \in DOMAIN s : s[k] # 0}
    IN  IF nonzero = {} THEN << >>
        ELSE SubSeq(s, 1, CHOOSE k \in nonzero : \A j \in nonzero : j <= k)

\* the limbs of a natural number below 2^31
BigFromNat(n) ==
    BigTrim(<<n % Base, (n \div Base) % Base, n \div (Base * Base)>>)

Limb(a, k) == IF k <= Len(a) THEN a[k] ELSE 0

RECURSIVE BigCmpFrom(_, _, _)
BigCmpFrom(a, b, k) ==
    IF k = 0 THEN 0
    ELSE IF a[k] # b[k] THEN (IF a[k] < b[k] THEN -1 ELSE 1)
    ELSE BigCmpFrom(a, b, k - 1)

\* -1, 0 or 1 as a < b, a = b or a > b
BigCmp(a, b) ==
    IF Len(a) # Len(b) THEN (IF Len(a) < Len(b) THEN -1 ELSE 1)
    ELSE BigCmpFrom(a, b, Len(a))

RECURSIVE BigAddFrom(_, _, _, _)
BigAddFrom(a, b, k, carry) ==
    IF k > Len(a) /\ k > Len(b)
    THEN (IF carry = 0 THEN << >> ELSE <<carry>>)
    ELSE LET s == Limb(a, k) + Limb(b, k) + carry
         IN  <<s % Base>> \o BigAddFrom(a, b, k + 1, s \div Base)

BigAdd(a, b) == BigAddFrom(a, b, 1, 0)

RECURSIVE BigSubFrom(_, _, _, _)
BigSubFrom(a, b, k, borrow) ==
    IF k > Len(a) THEN << >>
    ELSE LET s == a[k] - Limb(b, k) - borrow
         IN  IF s < 0 THEN <<s + Base>> \o BigSubFrom(a, b, k + 1, 1)
             ELSE <<s>> \o BigSubFrom(a, b, k + 1, 0)

\* a - b for a >= b
BigSub(a, b) == BigTrim(BigSubFrom(a, b, 1, 0))

RECURSIVE BigMulSmallFrom(_, _, _, _)
BigMulSmallFrom(a, x, k, carry) ==
    IF k > Len(a) THEN (IF carry = 0 THEN << >> ELSE <<carry>>)
    ELSE LET p == a[k] * x + carry
         IN  <<p % Base>> \o BigMulSmallFrom(a, x, k + 1, p \div Base)

\* a * x for 0 <= x < Base
BigMulSmall(a, x) == IF x = 0 THEN << >> ELSE BigMulSmallFrom(a, x, 1, 0)

BigShiftLimbs(a, n) == IF a = << >> THEN << >> ELSE [k \in 1..n |-> 0] \o a

RECURSIVE BigDivSmallFrom(_, _, _, _)
BigDivSmallFrom(a, x, k, r) ==
    IF k = 0 THEN [q |-> << >>, r |-> r]
    ELSE LET cur  == r * Base + a[k]
             rest == BigDivSmallFrom(a, x, k - 1, cur % x)
         IN  [q |-> Append(rest.q, cur \div x), r |-> rest.r]

\* quotient and remainder of a by x, for 0 < x <= Base
BigDivSmall(a, x) ==
    LET d == BigDivSmallFrom(a, x, Len(a), 0)
    IN  [q |-> BigTrim(d.q), r |-> d.r]

\* the number of bits of a limb
SmallBitLen(x) ==
    IF x = 0 THEN 0
    ELSE CHOOSE k \in 1..LimbBits : 2 ^ (k - 1) <= x /\ x < 2 ^ k

BigBitLen(a) ==
    IF a = << >> THEN 0
    ELSE (Len(a) - 1) * LimbBits + SmallBitLen(a[Len(a)])

\* the number of trailing zero bits of a limb x # 0
SmallTrailingZeros(x) ==
    CHOOSE k \in 0..(LimbBits - 1) : x % 2 ^ k = 0 /\ x % 2 ^ (k + 1) # 0

\* the number of trailing zero bits of a # 0, counted from limb k
RECURSIVE BigTrailingZeros(_, _)
BigTrailingZeros(a, k) ==
    IF a[k] = 0 THEN LimbBits + BigTrailingZeros(a, k + 1)
    ELSE SmallTrailingZeros(a[k])

\* The value an expression of the code has in exact arithmetic: a rational
\* (-1)^neg * n / d in lowest terms, nan where it has none.
RatNaN == [nan |-> TRUE, neg |-> FALSE, n |-> << >>, d |-> <<1>>]

RECURSIVE SmallGCD(_, _)
SmallGCD(a, b) == IF b = 0 THEN a ELSE SmallGCD(b, a % b)

\* the natural number with at most two limbs
BigToNat(a) == Limb(a, 1) + Base * Limb(a, 2)

RatInt(k) ==
    [nan |-> FALSE, neg |-> k < 0,
     n |-> BigFromNat(IF k < 0 THEN -k ELSE k), d |-> <<1>>]

RatNeg(a) == IF a.nan \/ a.n = << >> THEN a ELSE [a EXCEPT !.neg = ~a.neg]

\* A float64 is nan, an infinity, or (-1)^neg * m * 2^e with m odd (or 0,
\* e = 0), m < 2^53.  Every operation rounds the exact result to nearest,
\* ties to even.  The exponent is unbounded (no overflow, no subnormals)
\* and the sign of zero is not kept.
MantissaBits == 53

F64NaN == [nan |-> TRUE, inf |-> FALSE, neg |-> FALSE, m |-> << >>, e |-> 0]

F64Inf(neg) ==
    [nan |-> FALSE, inf |-> TRUE, neg |-> neg, m |-> << >>, e |-> 0]

F64Zero == [nan |-> FALSE, inf |-> FALSE, neg |-> FALSE, m |-> << >>, e |-> 0]

\* An int below 2^31 in magnitude is a float64 exactly
F64FromInt(k) ==
    IF k = 0 THEN F64Zero
    ELSE LET abs == IF k < 0 THEN -k ELSE k
             tz  == CHOOSE t \in 0..30 :
                        abs % 2 ^ t = 0 /\ (abs \div 2 ^ t) % 2 = 1
         IN  [nan |-> FALSE, inf |-> FALSE, neg |-> k < 0,
              m |-> BigFromNat(abs \div 2 ^ tz), e |-> tz]

F64IsZero(a) == ~a.nan /\ ~a.inf /\ a.m = << >>

F64Neg(a) == IF a.nan \/ F64IsZero(a) THEN a ELSE [a EXCEPT !.neg = ~a.neg]

\* A number of the program: f is the float64 the code holds, x the value the
\* same expression has in exact arithmetic.  The code's comparisons and
\* round() read f.
Num(f, x) == [f |-> f, x |-> x]

NaN == Num(F64NaN, RatNaN)

FromInt(k) == Num(F64FromInt(k), RatInt(k))

IsNaN(a) == a.f.nan

\* The operations below are the cases of one recursive operator, Arith:
\* Name(...) applies it and NameImpl(...) is what that case computes.
RECURSIVE Arith(_, _)

BigMul(a, b) == Arith("BigMul", <<a, b>>)
BigDigit(r, b, lo, hi) == Arith("BigDigit", <<r, b, lo, hi>>)
BigDivLongFrom(a, b, k, r) == Arith("BigDivLongFrom", <<a, b, k, r>>)
BigDivMod(a, b) == Arith("BigDivMod", <<a, b>>)
BigShl(a, n) == Arith("BigShl", <<a, n>>)
BigShr(a, n) == Arith("BigShr", <<a, n>>)
Rat(neg, n, d) == Arith("Rat", <<neg, n, d>>)
RatAdd(a, b) == Arith("RatAdd", <<a, b>>)
RatSub(a, b) == Arith("RatSub", <<a, b>>)
RatMul(a, b) == Arith("RatMul", <<a, b>>)
RatDiv(a, b) == Arith("RatDiv", <<a, b>>)
RatRound2(a) == Arith("RatRound2", <<a>>)
F64Make(neg, M, e) == Arith("F64Make", <<neg, M, e>>)
BigRoundShr(M, n, sticky) == Arith("BigRoundShr", <<M, n, sticky>>)
F64Round(neg, M, e, sticky) == Arith("F64Round", <<neg, M, e, sticky>>)
F64Add(a, b) == Arith("F64Add", <<a, b>>)
F64Sub(a, b) == Arith("F64Sub", <<a, b>>)
F64Mul(a, b) == Arith("F64Mul", <<a, b>>)
F64Div(a, b) == Arith("F64Div", <<a, b>>)
F64Cmp(a, b) == Arith("F64Cmp", <<a, b>>)
F64Gt(a, b) == Arith("F64Gt", <<a, b>>)
F64Lt(a, b) == Arith("F64Lt", <<a, b>>)
F64Rint(a) == Arith("F64Rint", <<a>>)
F64Round2(a) == Arith("F64Round2", <<a>>)
Add(a, b) == Arith("Add", <<a, b>>)
Sub(a, b) == Arith("Sub", <<a, b>>)
Mul(a, b) == Arith("Mul", <<a, b>>)
Div(a, b) == Arith("Div", <<a, b>>)
Gt(a, b) == Arith("Gt", <<a, b>>)
Lt(a, b) == Arith("Lt", <<a, b>>)
Round2(a) == Arith("Round2", <<a>>)

RECURSIVE BigGCD(_, _)
BigGCD(a, b) == IF b = << >> THEN a ELSE BigGCD(b, BigDivMod(a, b).r)

BigMulImpl(a, b) ==
    IF b = << >> THEN << >>
    ELSE BigAdd(BigMulSmall(a, b[1]), BigShiftLimbs(BigMul(a, Tail(b)), 1))

\* the largest digit d in lo..hi with b * d <= r
BigDigitImpl(r, b, lo, hi) ==
    IF lo = hi THEN lo
    ELSE LET mid == (lo + hi + 1) \div 2
         IN  IF BigCmp(BigMulSmall(b, mid), r) <= 0
             THEN BigDigit(r, b, mid, hi)
             ELSE BigDigit(r, b, lo, mid - 1)

BigDivLongFromImpl(a, b, k, r) ==
    IF k = 0 THEN [q |-> << >>, r |-> r]
    ELSE LET cur  == BigTrim(<<a[k]>> \o r)
             d    == BigDigit(cur, b, 0, Base - 1)
             rest == BigDivLongFrom(a, b, k - 1,
                                    BigSub(cur, BigMulSmall(b, d)))
         IN  [q |-> Append(rest.q, d), r |-> rest.r]

\* quotient and remainder of a by b # 0
BigDivModImpl(a, b) ==
    IF Len(b) = 1
    THEN LET d == BigDivSmall(a, b[1])
         IN  [q |-> d.q, r |-> BigFromNat(d.r)]
    ELSE LET d == BigDivLongFrom(a, b, Len(a), << >>)
         IN  [q |-> BigTrim(d.q), r |-> d.r]

\* a * 2^n
BigShlImpl(a, n) ==
    BigMulSmall(BigShiftLimbs(a, n \div LimbBits), 2 ^ (n % LimbBits))

\* a \div 2^n, and whether a nonzero bit was shifted out
BigShrImpl(a, n) ==
    LET drop == n \div LimbBits
    IN  IF drop >= Len(a) THEN [q |-> << >>, lost |-> a # << >>]
        ELSE LET d == BigDivSmall(SubSeq(a, drop + 1, Len(a)),
                                  2 ^ (n % LimbBits))
             IN  [q    |-> d.q,
                  lost |-> d.r # 0 \/ \E k \in 1..drop : a[k] # 0]

\* (-1)^neg * n / d for d # 0, in lowest terms
RatImpl(neg, n, d) ==
    IF n = << >>
    THEN [nan |-> FALSE, neg |-> FALSE, n |-> << >>, d |-> <<1>>]
    ELSE IF Len(n) <= 2 /\ Len(d) <= 2
    THEN LET g == SmallGCD(BigToNat(n), BigToNat(d))
         IN  [nan |-> FALSE, neg |-> neg,
              n |-> BigFromNat(BigToNat(n) \div g),
              d |-> BigFromNat(BigToNat(d) \div g)]
    ELSE LET g == BigGCD(n, d)
         IN  [nan |-> FALSE, neg |-> neg,
              n |-> BigDivMod(n, g).q, d |-> BigDivMod(d, g).q]

RatAddImpl(a, b) ==
    IF a.nan \/ b.nan THEN RatNaN
    ELSE LET A == BigMul(a.n, b.d)
             B == BigMul(b.n, a.d)
             d == BigMul(a.d, b.d)
         IN  IF a.neg = b.neg THEN Rat(a.neg, BigAdd(A, B), d)
             ELSE IF BigCmp(A, B) >= 0 THEN Rat(a.neg, BigSub(A, B), d)
             ELSE Rat(b.neg, BigSub(B, A), d)

RatSubImpl(a, b) == RatAdd(a, RatNeg(b))

RatMulImpl(a, b) ==
    IF a.nan \/ b.nan THEN RatNaN
    ELSE Rat(a.neg # b.neg, BigMul(a.n, b.n), BigMul(a.d, b.d))

\* a / b; no value for b = 0
RatDivImpl(a, b) ==
    IF a.nan \/ b.nan \/ b.n = << >> THEN RatNaN
    ELSE Rat(a.neg # b.neg, BigMul(a.n, b.d), BigMul(a.d, b.n))

\* the nearest hundredth, ties to even
RatRound2Impl(a) ==
    IF a.nan THEN RatNaN
    ELSE LET qr  == BigDivMod(BigMulSmall(a.n, 100), a.d)
             c   == BigCmp(BigMulSmall(qr.r, 2), a.d)
             up  == c > 0 \/ (c = 0 /\ Limb(qr.q, 1) % 2 = 1)
         IN  Rat(a.neg, IF up THEN BigAdd(qr.q, <<1>>) ELSE qr.q, <<100>>)

\* (-1)^neg * M * 2^e for M < 2^53, with the trailing zeros of M moved to e
F64MakeImpl(neg, M, e) ==
    IF M = << >> THEN F64Zero
    ELSE LET tz == BigTrailingZeros(M, 1)
         IN  [nan |-> FALSE, inf |-> FALSE, neg |-> neg,
              m |-> BigShr(M, tz).q, e |-> e + tz]

\* M \div 2^n rounded to nearest, ties to even; sticky says the exact value
\* is a little above M
BigRoundShrImpl(M, n, sticky) ==
    IF n = 0 THEN M
    ELSE LET s    == BigShr(M, n - 1)
             half == Limb(s.q, 1) % 2 = 1
             q    == BigShr(s.q, 1).q
             odd  == Limb(q, 1) % 2 = 1
         IN  IF half /\ (s.lost \/ sticky \/ odd) THEN BigAdd(q, <<1>>)
             ELSE q

\* The float64 nearest to (-1)^neg * (M + sticky) * 2^e
F64RoundImpl(neg, M, e, sticky) ==
    LET bits == BigBitLen(M)
    IN  IF bits <= MantissaBits THEN F64Make(neg, M, e)
        ELSE F64Make(neg, BigRoundShr(M, bits - MantissaBits, sticky),
                     e + bits - MantissaBits)

F64AddImpl(a, b) ==
    IF a.nan \/ b.nan THEN F64NaN
    ELSE IF a.inf \/ b.inf
    THEN IF a.inf /\ b.inf /\ a.neg # b.neg THEN F64NaN
         ELSE IF a.inf THEN a ELSE b
    ELSE IF a.m = << >> THEN b
    ELSE IF b.m = << >> THEN a
    ELSE LET lo == IF a.e < b.e THEN a.e ELSE b.e
             A  == BigShl(a.m, a.e - lo)
             B  == BigShl(b.m, b.e - lo)
             c  == BigCmp(A, B)
         IN  IF a.neg = b.neg THEN F64Round(a.neg, BigAdd(A, B), lo, FALSE)
             ELSE IF c = 0 THEN F64Zero
             ELSE IF c > 0 THEN F64Round(a.neg, BigSub(A, B), lo, FALSE)
             ELSE F64Round(b.neg, BigSub(B, A), lo, FALSE)

F64SubImpl(a, b) == F64Add(a, F64Neg(b))

F64MulImpl(a, b) ==
    IF a.nan \/ b.nan THEN F64NaN
    ELSE IF a.inf \/ b.inf
    THEN IF F64IsZero(a) \/ F64IsZero(b) THEN F64NaN
         ELSE F64Inf(a.neg # b.neg)
    ELSE F64Round(a.neg # b.neg, BigMul(a.m, b.m), a.e + b.e, FALSE)

\* a divided by b: a division by zero gives nan or an infinity
F64DivImpl(a, b) ==
    IF a.nan \/ b.nan THEN F64NaN
    ELSE IF a.inf THEN (IF b.inf THEN F64NaN ELSE F64Inf(a.neg # b.neg))
    ELSE IF b.inf THEN F64Zero
    ELSE IF b.m = << >>
    THEN (IF a.m = << >> THEN F64NaN ELSE F64Inf(a.neg # b.neg))
    ELSE IF a.m = << >> THEN F64Zero
    ELSE LET need == MantissaBits + 2 + BigBitLen(b.m) - BigBitLen(a.m)
             k    == IF need > 0 THEN need ELSE 0
             d    == BigDivMod(BigShl(a.m, k), b.m)
         IN  F64Round(a.neg # b.neg, d.q, a.e - b.e - k, d.r # << >>)

\* -1, 0 or 1 as a < b, a = b or a > b, for a and b not nan
F64CmpImpl(a, b) ==
    LET d == F64Sub(a, b)
    IN  IF d.nan \/ F64IsZero(d) THEN 0 ELSE IF d.neg THEN -1 ELSE 1

\* IEEE comparisons: any comparison with nan is false
F64GtImpl(a, b) == ~a.nan /\ ~b.nan /\ F64Cmp(a, b) = 1

F64LtImpl(a, b) == ~a.nan /\ ~b.nan /\ F64Cmp(a, b) = -1

\* numpy.rint: the nearest integer, ties to even
F64RintImpl(a) ==
    IF a.nan \/ a.inf \/ a.e >= 0 THEN a
    ELSE F64Make(a.neg, BigRoundShr(a.m, -a.e, FALSE), 0)

\* round( x, 2 ) of a numpy float64: x * 100, rint, / 100
F64Round2Impl(a) == F64Div(F64Rint(F64Mul(a, F64FromInt(100))), F64FromInt(100))

AddImpl(a, b) == Num(F64Add(a.f, b.f), RatAdd(a.x, b.x))

SubImpl(a, b) == Num(F64Sub(a.f, b.f), RatSub(a.x, b.x))

MulImpl(a, b) == Num(F64Mul(a.f, b.f), RatMul(a.x, b.x))

DivImpl(a, b) == Num(F64Div(a.f, b.f), RatDiv(a.x, b.x))

GtImpl(a, b) == F64Gt(a.f, b.f)

LtImpl(a, b) == F64Lt(a.f, b.f)

\* round( x, 2 )
Round2Impl(a) == Num(F64Round2(a.f), RatRound2(a.x))

Arith(op, x) ==
    CASE op = "BigDivMod" -> BigDivModImpl(x[1], x[2])
      [] op = "BigShr" -> BigShrImpl(x[1], x[2])
      [] op = "F64Make" -> F64MakeImpl(x[1], x[2], x[3])
      [] op = "F64Round" -> F64RoundImpl(x[1], x[2], x[3], x[4])
      [] op = "BigMul" -> BigMulImpl(x[1], x[2])
      [] op = "Rat" -> RatImpl(x[1], x[2], x[3])
      [] op = "BigShl" -> BigShlImpl(x[1], x[2])
      [] op = "BigRoundShr" -> BigRoundShrImpl(x[1], x[2], x[3])
      [] op = "BigDigit" -> BigDigitImpl(x[1], x[2], x[3], x[4])
      [] op = "BigDivLongFrom" -> BigDivLongFromImpl(x[1], x[2], x[3], x[4])
      [] op = "RatAdd" -> RatAddImpl(x[1], x[2])
      [] op = "RatSub" -> RatSubImpl(x[1], x[2])
      [] op = "RatMul" -> RatMulImpl(x[1], x[2])
      [] op = "RatDiv" -> RatDivImpl(x[1], x[2])
      [] op = "RatRound2" -> RatRound2Impl(x[1])
      [] op = "F64Add" -> F64AddImpl(x[1], x[2])
      [] op = "F64Sub" -> F64SubImpl(x[1], x[2])
      [] op = "F64Mul" -> F64MulImpl(x[1], x[2])
      [] op = "F64Div" -> F64DivImpl(x[1], x[2])
      [] op = "F64Cmp" -> F64CmpImpl(x[1], x[2])
      [] op = "F64Gt" -> F64GtImpl(x[1], x[2])
      [] op = "F64Lt" -> F64LtImpl(x[1], x[2])
      [] op = "F64Rint" -> F64RintImpl(x[1])
      [] op = "F64Round2" -> F64Round2Impl(x[1])
      [] op = "Add" -> AddImpl(x[1], x[2])
      [] op = "Sub" -> SubImpl(x[1], x[2])
      [] op = "Mul" -> MulImpl(x[1], x[2])
      [] op = "Div" -> DivImpl(x[1], x[2])
      [] op = "Gt" -> GtImpl(x[1], x[2])
      [] op = "Lt" -> LtImpl(x[1], x[2])
      [] op = "Round2" -> Round2Impl(x[1])

\* ------------------------------------------------------------ data frames
iloc(s, i) == s[i + 1]

\* Timestamps are hours since the epoch; strftime( '%Y-%m-%d' ) keeps the day.
Strftime(ts) == ts \div 24

\* The index yfinance gives n daily bars: midnight of n consecutive days.
DailyIndex(n) == [k \in 1..n |-> 24 * (k - 1)]

\* A fetched frame: its index, its Close column, and the names of its columns.
\* short_ma and long_ma are empty until calculate_signals assigns them.
Frame(closes) ==
    [index    |-> DailyIndex(Len(closes)),
     Close    |-> closes,
     short_ma |-> << >>,
     long_ma  |-> << >>,
     columns  |-> {"Open", "High", "Low", "Close", "Volume"}]

RECURSIVE SeqsOfLen(_, _)
SeqsOfLen(S, n) ==
    IF n = 0 THEN { << >> }
    ELSE { Append(s, x) : s \in SeqsOfLen(S, n - 1), x \in S }

SeqsUpTo(S, n) == UNION { SeqsOfLen(S, k) : k \in 0..n }

\* s[lo] + ... + s[hi], added by halves
RECURSIVE SumRange(_, _, _)
SumRange(s, lo, hi) ==
    IF lo > hi THEN 0
    ELSE IF lo = hi THEN s[lo]
    ELSE SumRange(s, lo, (lo + hi) \div 2)
         + SumRange(s, (lo + hi) \div 2 + 1, hi)

\* Variant: min_periods = 1, the mean of the bars there are
RollingMeanPartial(closes, w, i) ==
    IF i + 1 >= w
    THEN Div(FromInt(SumRange(closes, i + 2 - w, i + 1)), FromInt(w))
    ELSE Div(FromInt(SumRange(closes, 1, i + 1)), FromInt(i + 1))

\* data[ 'Close' ].rolling( window = w ).mean() at 0-based position i:
\* NaN for the first w - 1 bars, else the mean of the trailing w closes.
RollingMeanAt(closes, w, i) ==
    IF i + 1 >= w
    THEN Div(FromInt(SumRange(closes, i + 2 - w, i + 1)), FromInt(w))
    ELSE NaN

RollingMean(closes, w) ==
    [k \in 1..Len(closes) |-> RollingMeanAt(closes, w, k - 1)]

\* Variant: the bars whose averages are NaN are then dropped in place
\* ( data.dropna( inplace = True ) )
WithMovingAveragesDropNa(d, sw, lw) ==
    LET first == IF sw > lw THEN sw ELSE lw
        n     == Len(d.Close)
    IN  [index    |-> SubSeq(d.index, first, n),
         Close    |-> SubSeq(d.Close, first, n),
         short_ma |-> SubSeq(RollingMean(d.Close, sw), first, n),
         long_ma  |-> SubSeq(RollingMean(d.Close, lw), first, n),
         columns  |-> d.columns \cup {"short_ma", "long_ma"}]

\* Lines 26-27: the two columns are assigned on the caller's frame.
WithMovingAverages(d, sw, lw) ==
    [d EXCEPT !.short_ma = RollingMean(d.Close, sw),
              !.long_ma  = RollingMean(d.Close, lw),
              !.columns  = @ \cup {"short_ma", "long_ma"}]

\* ------------------------------------------------------ calculate_signals
None == [set |-> FALSE, val |-> 0]
Some(v) == [set |-> TRUE, val |-> v]

\* Variant: the run starts LONG
InitLocalsLong(initial) ==
    [current_value      |-> FromInt(initial),
     current_position   |-> 1,
     entry_price        |-> None,
     signals_with_dates |-> << >>]

\* Lines 30-33
InitLocals(initial) ==
    [current_value      |-> FromInt(initial),
     current_position   |-> 0,
     entry_price        |-> None,
     signals_with_dates |-> << >>]

\* Variant: the event is dated data.index[ i - 1 ] (index -1 is the last bar)
EventPreviousBar(d, i, signal, price, position, value) ==
    [date            |-> Strftime(IF i = 0 THEN d.index[Len(d.index)]
                                  ELSE iloc(d.index, i - 1)),
     signal          |-> signal,
     price           |-> price,
     position        |-> position,
     portfolio_value |-> Round2(value),
     short_ma        |-> Round2(iloc(d.short_ma, i)),
     long_ma         |-> Round2(iloc(d.long_ma, i))]

Event(d, i, signal, price, position, value) ==
    [date            |-> Strftime(iloc(d.index, i)),
     signal          |-> signal,
     price           |-> price,
     position        |-> position,
     portfolio_value |-> Round2(value),
     short_ma        |-> Round2(iloc(d.short_ma, i)),
     long_ma         |-> Round2(iloc(d.long_ma, i))]

\* Variant: the position is not tested
BuyCondAnyPosition(short_ma, long_ma, current_position) ==
    Gt(short_ma, long_ma)

\* Variant: >= in place of >
BuyCondOrEqual(short_ma, long_ma, current_position) ==
    /\ ~Lt(short_ma, long_ma) /\ ~IsNaN(short_ma) /\ ~IsNaN(long_ma)
    /\ current_position = 0

\* Line 45
BuyCond(short_ma, long_ma, current_position) ==
    Gt(short_ma, long_ma) /\ current_position = 0

\* Variant: <= in place of <
SellCondOrEqual(short_ma, long_ma, current_position) ==
    /\ ~Gt(short_ma, long_ma) /\ ~IsNaN(short_ma) /\ ~IsNaN(long_ma)
    /\ current_position = 1

\* Line 57
SellCond(short_ma, long_ma, current_position) ==
    Lt(short_ma, long_ma) /\ current_position = 1

\* Variant: the change is divided by the current price
ReturnsOverPrice(price, entry_price) ==
    Div(FromInt(price - entry_price), FromInt(price))

\* Lines 60 and 78: ( price - entry_price ) / entry_price
Returns(price, entry_price) ==
    Div(FromInt(price - entry_price), FromInt(entry_price))

\* Lines 61 and 79: current_value * ( 1 + returns )
ApplyReturns(current_value, price, entry_price) ==
    Mul(current_value, Add(FromInt(1), Returns(price, entry_price)))

\* Variant: the entry price is not recorded
BuyBranchNoEntry(d, i, st) ==
    LET price == iloc(d.Close, i)
    IN  [st EXCEPT
           !.current_position   = 1,
           !.signals_with_dates =
               Append(@, Event(d, i, "BUY", price, 1, st.current_value))]

\* Lines 46-56
BuyBranch(d, i, st) ==
    LET price == iloc(d.Close, i)
    IN  [st EXCEPT
           !.current_position   = 1,
           !.entry_price        = Some(price),
           !.signals_with_dates =
               Append(@, Event(d, i, "BUY", price, 1, st.current_value))]

\* Lines 59-61: current_value after the sale at price
SoldValue(st, price) ==
    IF st.entry_price.set
    THEN ApplyReturns(st.current_value, price, st.entry_price.val)
    ELSE st.current_value

\* Lines 62-73, with current_value already updated to value
Sold(d, i, st, price, value, reported) ==
    [st EXCEPT
       !.current_value      = value,
       !.current_position   = 0,
       !.entry_price        = None,
       !.signals_with_dates =
           Append(@, Event(d, i, "SELL", price, 0, reported))]

\* Variant: the SELL event is built before current_value is updated
SellBranchStaleValue(d, i, st) ==
    Sold(d, i, st, iloc(d.Close, i), SoldValue(st, iloc(d.Close, i)),
         st.current_value)

\* The SELL event carries the updated current_value
SoldAt(d, i, st, price, value) == Sold(d, i, st, price, value, value)

\* Lines 59-73
SellBranch(d, i, st) ==
    SoldAt(d, i, st, iloc(d.Close, i), SoldValue(st, iloc(d.Close, i)))

\* Variant: the loop also skips bar 1
PastSecondBar(i) == i > 1

\* Line 39
PastFirstBar(i) == i > 0

\* Lines 39-73: the body of the loop for bar i
LoopBody(d, i, st) ==
    IF PastFirstBar(i)
    THEN LET short_ma == iloc(d.short_ma, i)
             long_ma  == iloc(d.long_ma, i)
         IN  IF BuyCond(short_ma, long_ma, st.current_position)
             THEN BuyBranch(d, i, st)
             ELSE IF SellCond(short_ma, long_ma, st.current_position)
                  THEN SellBranch(d, i, st)
                  ELSE st
    ELSE st

\* Lines 37-73: bars lo, ..., hi - 1 in order.  The range is run in two
\* halves, the second from the locals the first one left, so that the depth
\* of the evaluation grows with the logarithm of the number of bars.
RECURSIVE RunBars(_, _, _, _)
RunBarsFrom(d, mid, hi, st, before) ==
    IF before = st THEN RunBars(d, mid, hi, st)
    ELSE RunBars(d, mid, hi, before)

RunBars(d, lo, hi, st) ==
    IF hi <= lo THEN st
    ELSE IF hi = lo + 1 THEN LoopBody(d, lo, st)
    ELSE RunBarsFrom(d, (lo + hi) \div 2, hi, st,
                     RunBars(d, lo, (lo + hi) \div 2, st))

\* Lines 37-73: bars i, i + 1, ... in order
RunLoop(d, i, st) == RunBars(d, i, Len(d.Close), st)

\* Line 76 (and 81): iloc[ -1 ] of an empty frame raises IndexError
RaisesIndexError(d) == Len(d.Close) = 0

Last(s) == s[Len(s)]

\* Variant: an open position is not valued at the final bar
FinalValuationSkipped(d, st) == st

\* Lines 76-79
FinalValuation(d, st) ==
    LET final_price == Last(d.Close)
    IN  IF st.current_position = 1 /\ st.entry_price.set
        THEN [st EXCEPT !.current_value =
                 ApplyReturns(st.current_value, final_price,
                              st.entry_price.val)]
        ELSE st

\* Variant: the HOLD is appended unconditionally
HoldNeededAlways(signals_with_dates, final_date) == TRUE

\* Line 82
HoldNeeded(signals_with_dates, final_date) ==
    \/ signals_with_dates = << >>
    \/ Last(signals_with_dates).date # final_date

\* Lines 81-91
TerminalHold(d, st) ==
    LET final_date == Strftime(Last(d.index))
        last       == Len(d.Close) - 1
    IN  IF HoldNeeded(st.signals_with_dates, final_date)
        THEN [st EXCEPT !.signals_with_dates =
                 Append(@, Event(d, last, "HOLD", Last(d.Close),
                                 st.current_position, st.current_value))]
        ELSE st

\* Lines 93-100
ReturnValue(d, st) ==
    [close       |-> Last(d.Close),
     ma          |-> Last(d.long_ma),
     signal      |-> Last(st.signals_with_dates).signal,
     history     |-> st.signals_with_dates,
     data        |-> d,
     final_value |-> st.current_value]

\* The locals at the return statement, and the dict it returns
Returning(d, st) == [locals |-> st, result |-> ReturnValue(d, st)]

\* Variant: the terminal HOLD is built before the final valuation
FinalizeHoldFirst(d, st) ==
    Returning(d, FinalValuation(d, TerminalHold(d, st)))

\* Lines 76-100
Finalize(d, st) == Returning(d, TerminalHold(d, FinalValuation(d, st)))

\* ------------------------------------------------------ calculate_returns
\* Variant: the initial investment is not subtracted
ProfitGross(final_value, initial) == final_value

\* Line 108
Profit(final_value, initial) == Sub(final_value, FromInt(initial))

\* Line 109
Roi(final_value, initial) ==
    Mul(Div(Sub(final_value, FromInt(initial)), FromInt(initial)),
           FromInt(100))

\* Lines 107-116
PortfolioEntry(signal_data, initial) ==
    [initial_investment |-> initial,
     final_value        |-> signal_data.final_value,
     profit             |-> Profit(signal_data.final_value, initial),
     roi                |-> Roi(signal_data.final_value, initial)]

\* final_value is still the Python int passed as initial_investment when
\* current_value was never reassigned: only a run with a BUY reassigns it
\* (lines 61, 79), to a numpy float64
IsPythonInt(signal_data) ==
    \A k \in 1..Len(signal_data.history) :
        signal_data.history[k].signal # "BUY"

\* Line 109 divides by initial_investment: int / 0 raises ZeroDivisionError,
\* while float64 / 0 gives nan or an infinity
CalculateReturnsRaises(signals_dict, initial) ==
    /\ initial = 0
    /\ \E t \in DOMAIN signals_dict : IsPythonInt(signals_dict[t])

\* Lines 102-118
CalculateReturns(signals_dict, initial) ==
    [t \in DOMAIN signals_dict |-> PortfolioEntry(signals_dict[t], initial)]

\* ------------------------------------------------------------------ state
VARIABLES
    data,                \* the frame passed to calculate_signals
    short_window,
    long_window,
    initial_investment,
    pc,                  \* position of the calculate_signals call
    i,                   \* loop index of line 37
    current_value,
    current_position,
    entry_price,
    signals_with_dates,
    result,              \* the dict returned at lines 93-100
    reference_value,     \* equity under per-bar mark-to-market accounting
    calls,               \* calls of calculate_signals made on data so far
    first_result,        \* what the first call on data returned
    exception,           \* the exception that left the call or main's try
    tickers,             \* main: the ticker list of line 132
    m_pc,                \* main: position in main
    m_idx,               \* main: index of the running for loop
    data_dict,           \* main: line 137
    signals,             \* main: line 138
    assigned,            \* main: the keys assigned to signals, in order
    shown,               \* main: tickers whose signal history was rendered
    portfolio_results,   \* main: line 208
    totals               \* main: lines 222-225

engine_vars == <<data, pc, i, current_value, current_position, entry_price,
                 signals_with_dates, result, reference_value, calls,
                 first_result>>

main_vars == <<tickers, m_pc, m_idx, data_dict, signals, assigned, shown,
               totals>>

vars == <<data, short_window, long_window, initial_investment, pc, i,
          current_value, current_position, entry_price, signals_with_dates,
          result, reference_value, calls, first_result, exception, tickers,
          m_pc, m_idx, data_dict, signals, assigned, shown,
          portfolio_results, totals>>

Locals ==
    [current_value      |-> current_value,
     current_position   |-> current_position,
     entry_price        |-> entry_price,
     signals_with_dates |-> signals_with_dates]

SetLocals(st) ==
    /\ current_value'      = st.current_value
    /\ current_position'   = st.current_position
    /\ entry_price'        = st.entry_price
    /\ signals_with_dates' = st.signals_with_dates

EmptyDict == << >>
NoResult == << >>
NoTotals == << >>

DictSet(dict, key, value) ==
    [k \in DOMAIN dict \cup {key} |-> IF k = key THEN value ELSE dict[k]]

\* --------------------------------------- Spec: one call, bar by bar
\* The scenario of spec.md section 8
Scenario ==
    [closes             |-> <<10, 10, 10, 10, 12, 12, 12, 12, 12, 12>>,
     short_window       |-> 2,
     long_window        |-> 4,
     initial_investment |-> 1000]

\* The state before a first call calculate_signals( data, short_window,
\* long_window, initial_investment ) with arguments from the given sets
InitCall(closes, shorts, longs, investments) ==
    /\ data \in { Frame(c) : c \in closes }
    /\ short_window \in shorts
    /\ long_window \in longs
    /\ initial_investment \in investments
    /\ pc = "call"
    /\ calls = 1
    /\ first_result = NoResult
    /\ i = 0
    /\ current_value = InitLocals(initial_investment).current_value
    /\ current_position = 0
    /\ entry_price = None
    /\ signals_with_dates = << >>
    /\ result = NoResult
    /\ reference_value = RatInt(initial_investment)
    /\ exception = "none"
    /\ tickers = <<"AAPL">>
    /\ m_pc = "signals"
    /\ m_idx = 0
    /\ data_dict = EmptyDict
    /\ signals = EmptyDict
    /\ assigned = << >>
    /\ shown = << >>
    /\ portfolio_results = EmptyDict
    /\ totals = NoTotals

InitScenario ==
    InitCall({Scenario.closes}, {Scenario.short_window},
             {Scenario.long_window}, {Scenario.initial_investment})

Init ==
    \/ InitCall(SeqsUpTo(Prices, MaxLen), Windows, Windows, Investments)
    \/ InitScenario

\* The accounting the code is compared with: equity is unchanged by a bar
\* entered FLAT and multiplied by close_t / close_{t-1} by a bar entered LONG.
MarkToMarket(d, t, position, equity) ==
    IF position = 1 /\ t > 0
    THEN RatMul(equity, RatDiv(RatInt(iloc(d.Close, t)),
                               RatInt(iloc(d.Close, t - 1))))
    ELSE equity

\* Lines 24-33: the call starts; the moving averages are assigned on data
Enter ==
    /\ pc = "call"
    /\ data' = WithMovingAverages(data, short_window, long_window)
    /\ SetLocals(InitLocals(initial_investment))
    /\ reference_value' = RatInt(initial_investment)
    /\ i' = 0
    /\ pc' = "loop"
    /\ UNCHANGED <<short_window, long_window, initial_investment, result,
                   exception, portfolio_results, calls, first_result>>
    /\ UNCHANGED main_vars

\* Lines 37-73: one iteration of the loop, for bar i
Iterate ==
    /\ pc = "loop"
    /\ i < Len(data.Close)
    /\ SetLocals(LoopBody(data, i, Locals))
    /\ reference_value' =
           MarkToMarket(data, i, current_position, reference_value)
    /\ i' = i + 1
    /\ UNCHANGED <<data, pc, short_window, long_window, initial_investment,
                   result, exception, portfolio_results, calls, first_result>>
    /\ UNCHANGED main_vars

\* Line 93: the call returns
Return(fin) ==
    /\ SetLocals(fin.locals)
    /\ result' = fin.result

\* Lines 76-100: after the loop, on a frame with at least one bar
Finish ==
    /\ pc = "loop"
    /\ i = Len(data.Close)
    /\ ~RaisesIndexError(data)
    /\ Return(Finalize(data, Locals))
    /\ pc' = "returned"
    /\ UNCHANGED <<data, i, reference_value, short_window, long_window,
                   initial_investment, exception, portfolio_results, calls,
                   first_result>>
    /\ UNCHANGED main_vars

\* Line 76 on an empty frame: IndexError leaves calculate_signals
RaiseEmpty ==
    /\ pc = "loop"
    /\ i = Len(data.Close)
    /\ RaisesIndexError(data)
    /\ exception' = "IndexError"
    /\ pc' = "raised"
    /\ UNCHANGED <<data, i, current_value, current_position, entry_price,
                   signals_with_dates, result, reference_value, short_window,
                   long_window, initial_investment, portfolio_results, calls,
                   first_result>>
    /\ UNCHANGED main_vars

\* Lines 102-118: calculate_returns over the signals of the one ticker
ReportReturns ==
    /\ pc = "returned"
    /\ m_pc = "signals"
    /\ signals' = DictSet(signals, tickers[1], result)
    /\ assigned' = Append(assigned, tickers[1])
    /\ IF CalculateReturnsRaises(signals', initial_investment)
       THEN /\ exception' = "ZeroDivisionError"
            /\ m_pc' = "failed"
            /\ UNCHANGED portfolio_results
       ELSE /\ portfolio_results' =
                   CalculateReturns(signals', initial_investment)
            /\ m_pc' = "reported"
            /\ UNCHANGED exception
    /\ UNCHANGED engine_vars
    /\ UNCHANGED <<short_window, long_window, initial_investment, tickers,
                   m_idx, data_dict, shown, totals>>

\* The same frame object is passed to calculate_signals a second time, with
\* the same windows and initial investment
CallAgain ==
    /\ pc = "returned"
    /\ m_pc = "signals"
    /\ calls = 1
    /\ first_result' = result
    /\ calls' = 2
    /\ pc' = "call"
    /\ UNCHANGED <<data, i, current_value, current_position, entry_price,
                   signals_with_dates, result, reference_value, short_window,
                   long_window, initial_investment, exception,
                   portfolio_results>>
    /\ UNCHANGED main_vars

Next ==
    Enter \/ Iterate \/ Finish \/ RaiseEmpty \/ ReportReturns \/ CallAgain

Spec == Init /\ [][Next]_vars

\* The same calls, for any initial investment a caller may pass, 0 included
InitAnyInvestment ==
    InitCall(SeqsUpTo(Prices, MaxLen), Windows, Windows,
             Investments \cup {0})

SpecAnyInvestment == InitAnyInvestment /\ [][Next]_vars

\* ------------------------------------------------ SpecMain: main's batch
\* What the provider does for one ticker: stock.history raises, or returns a
\* frame (empty for an unknown ticker or a range without trading days).
ProviderOutcomes ==
    { [raises |-> TRUE, frame |-> Frame(<< >>)] }
    \cup { [raises |-> FALSE, frame |-> Frame(c)] :
             c \in SeqsUpTo(Prices, MainMaxLen) }

\* Lines 13-21: None when the provider raised
FetchStockData(outcome) ==
    IF outcome.raises
    THEN [is_none |-> TRUE, frame |-> Frame(<< >>)]
    ELSE [is_none |-> FALSE, frame |-> outcome.frame]

\* Lines 24-100 as one call: the frame as the call leaves it, and either the
\* returned dict or the exception
SignalsOf(d, initial) ==
    IF RaisesIndexError(d)
    THEN [raised |-> TRUE, data |-> d, result |-> NoResult]
    ELSE [raised |-> FALSE, data |-> d,
          result |-> Finalize(d, RunLoop(d, 0, InitLocals(initial))).result]

CalculateSignals(d0, sw, lw, initial) ==
    SignalsOf(WithMovingAverages(d0, sw, lw), initial)

RECURSIVE SumInvestments(_, _)
SumInvestments(results, keys) ==
    IF keys = {} THEN 0
    ELSE LET k == CHOOSE x \in keys : TRUE
         IN  results[k].initial_investment
             + SumInvestments(results, keys \ {k})

\* list( dict ): a dict holds each key once, at the place of its first
\* assignment; keys_assigned are the keys of the assignments made, in order
Keys(dict, keys_assigned) ==
    LET first == {k \in DOMAIN keys_assigned :
                      /\ keys_assigned[k] \in DOMAIN dict
                      /\ \A j \in 1..(k - 1) :
                             keys_assigned[j] # keys_assigned[k]}
    IN  [n \in 1..Cardinality(first) |->
            keys_assigned[CHOOSE k \in first :
                              Cardinality({j \in first : j <= k}) = n]]

\* Line 223: sum() adds the values to 0 in the order of the dict
RECURSIVE SumFinalValues(_, _, _)
SumFinalValues(results, keys, n) ==
    IF n = 0 THEN FromInt(0)
    ELSE Add(SumFinalValues(results, keys, n - 1),
             results[keys[n]].final_value)

\* Line 225 divides by total_investment: int / 0 raises ZeroDivisionError;
\* total_final is a Python int only if every final_value is one
TotalsRaise(results, signals_dict) ==
    /\ SumInvestments(results, DOMAIN results) = 0
    /\ \A t \in DOMAIN results : IsPythonInt(signals_dict[t])

\* Lines 222-225
TotalsOf(total_investment, total_final, total_profit) ==
    [total_investment |-> total_investment,
     total_final      |-> total_final,
     total_profit     |-> total_profit,
     total_roi        |-> Mul(Div(total_profit, FromInt(total_investment)),
                              FromInt(100))]

\* Line 224
TotalProfit(total_investment, total_final) ==
    TotalsOf(total_investment, total_final,
             Sub(total_final, FromInt(total_investment)))

\* Lines 222-223: the sums run over portfolio_results.values(), in the order
\* calculate_returns took from signals.items()
Totals(results, keys_assigned) ==
    TotalProfit(SumInvestments(results, DOMAIN results),
                SumFinalValues(results, Keys(results, keys_assigned),
                               Len(Keys(results, keys_assigned))))

\* Line 132: the default input, and an input that names a ticker twice
TickerLists ==
    {<<"AAPL", "MSFT", "GOOGL">>, <<"AAPL", "MSFT", "AAPL">>}

InitMain ==
    /\ data = Frame(<< >>)
    /\ short_window \in Windows
    /\ long_window \in Windows
    /\ initial_investment \in Investments
    /\ pc = "idle"
    /\ i = 0
    /\ current_value = FromInt(0)
    /\ current_position = 0
    /\ entry_price = None
    /\ signals_with_dates = << >>
    /\ result = NoResult
    /\ reference_value = RatInt(0)
    /\ calls = 0
    /\ first_result = NoResult
    /\ exception = "none"
    /\ tickers \in TickerLists
    /\ m_pc = "fetch"
    /\ m_idx = 0
    /\ data_dict = EmptyDict
    /\ signals = EmptyDict
    /\ assigned = << >>
    /\ shown = << >>
    /\ portfolio_results = EmptyDict
    /\ totals = NoTotals

\* The for loops of main advance to the next ticker, or to the next section
Advance(next_pc) ==
    IF m_idx + 1 < Len(tickers)
    THEN m_idx' = m_idx + 1 /\ m_pc' = m_pc
    ELSE m_idx' = 0 /\ m_pc' = next_pc

\* Line 298: the except clause around the whole body of main
Caught(name) ==
    /\ exception' = name
    /\ m_pc' = "failed"
    /\ m_idx' = m_idx

\* Lines 150-152: the frame of the ticker is stored, then its signals
Store(ticker, call) ==
    /\ data_dict' = DictSet(data_dict, ticker, call.data)
    /\ IF call.raised
       THEN /\ Caught("IndexError")
            /\ UNCHANGED <<signals, assigned>>
       ELSE /\ signals' = DictSet(signals, ticker, call.result)
            /\ assigned' = Append(assigned, ticker)
            /\ Advance("history")
            /\ UNCHANGED exception

\* Lines 148-152: one iteration of the fetch loop
MainFetch ==
    /\ m_pc = "fetch"
    /\ \E outcome \in ProviderOutcomes :
         LET fetched == FetchStockData(outcome)
         IN  IF fetched.is_none
             THEN /\ Advance("history")
                  /\ UNCHANGED <<data_dict, signals, assigned, exception>>
             ELSE Store(tickers[m_idx + 1],
                        CalculateSignals(fetched.frame, short_window,
                                         long_window, initial_investment))
    /\ UNCHANGED engine_vars
    /\ UNCHANGED <<short_window, long_window, initial_investment, tickers,
                   shown, portfolio_results, totals>>

\* Lines 161-203: one iteration of the signal history loop
MainHistory ==
    /\ m_pc = "history"
    /\ LET ticker == tickers[m_idx + 1]
       IN  IF ticker \in DOMAIN signals
           THEN /\ shown' = Append(shown, ticker)
                /\ Advance("results")
                /\ UNCHANGED exception
           ELSE /\ Caught("KeyError")
                /\ UNCHANGED shown
    /\ UNCHANGED engine_vars
    /\ UNCHANGED <<short_window, long_window, initial_investment, tickers,
                   data_dict, signals, assigned, portfolio_results, totals>>

\* Lines 208-296: the backtesting results, the totals and the charts
MainResults ==
    /\ m_pc = "results"
    /\ IF CalculateReturnsRaises(signals, initial_investment)
       THEN /\ Caught("ZeroDivisionError")
            /\ UNCHANGED <<portfolio_results, totals>>
       ELSE /\ portfolio_results' =
                   CalculateReturns(signals, initial_investment)
            /\ IF TotalsRaise(portfolio_results', signals)
               THEN /\ Caught("ZeroDivisionError")
                    /\ UNCHANGED totals
               ELSE /\ totals' = Totals(portfolio_results', assigned)
                    /\ m_pc' = "done"
                    /\ m_idx' = m_idx
                    /\ UNCHANGED exception
    /\ UNCHANGED engine_vars
    /\ UNCHANGED <<short_window, long_window, initial_investment, tickers,
                   data_dict, signals, assigned, shown>>

NextMain == MainFetch \/ MainHistory \/ MainResults

SpecMain == InitMain /\ [][NextMain]_vars

\* ================================================================ claims
IsTrade(e) == e.signal # "HOLD"

\* The BUY and SELL events of a history, in order
Trades(history) == SelectSeq(history, IsTrade)

\* The history built so far, and the one returned
History == IF pc = "returned" THEN result.history ELSE signals_with_dates

Alternates(history) ==
    LET t == Trades(history)
    IN  /\ (Len(t) > 0 => t[1].signal = "BUY")
        /\ \A k \in 1..(Len(t) - 1) : t[k].signal # t[k + 1].signal

\* C1: the history never holds two BUY events without a SELL between them,
\* nor two SELL events without a BUY between them, and its first BUY/SELL
\* event is a BUY (HOLD events ignored).
C1_Alternation == Alternates(signals_with_dates) /\ Alternates(History)

\* C1 witness: a returned history with BUY, SELL, BUY, SELL
C1_Witness ==
    /\ pc = "returned"
    /\ Len(Trades(result.history)) >= 4

\* The date of bar 0 of the frame
DateOfBar(d, k) == Strftime(iloc(d.index, k))

\* C4, as stated: for every non-empty series, one-bar series included, no
\* event of the returned history carries the date of bar 0.
C4_NoEventAtBarZero ==
    pc = "returned" =>
        \A k \in 1..Len(result.history) :
            result.history[k].date # DateOfBar(data, 0)

\* C4, amended: no BUY or SELL is ever dated at bar 0; a series of two or
\* more bars has no event at all dated at bar 0; a series of exactly one bar
\* returns the single terminal HOLD, dated at bar 0.
C4_OnlyOneBarHoldAtBarZero ==
    /\ \A k \in 1..Len(signals_with_dates) :
           signals_with_dates[k].date = DateOfBar(data, 0)
               => /\ signals_with_dates[k].signal = "HOLD"
                  /\ Len(data.Close) = 1
    /\ (pc = "returned" /\ Len(data.Close) = 1) =>
           /\ Len(result.history) = 1
           /\ result.history[1].signal = "HOLD"
           /\ result.history[1].date = DateOfBar(data, 0)
    /\ (pc = "returned" /\ Len(data.Close) >= 2) =>
           \A k \in 1..Len(result.history) :
               result.history[k].date # DateOfBar(data, 0)

\* C4 witness: a run of several bars whose first event is a BUY at bar 1
C4_Witness ==
    /\ pc = "returned"
    /\ Len(data.Close) >= 3
    /\ result.history[1].signal = "BUY"
    /\ result.history[1].date = DateOfBar(data, 1)

\* short_ma > long_ma at bar k (false when k < 0 or a moving average is NaN)
ShortAbove(d, k) ==
    /\ k >= 0
    /\ Gt(iloc(d.short_ma, k), iloc(d.long_ma, k))

\* The 0-based bar an event is dated at
BarOf(d, e) == CHOOSE k \in 0..(Len(d.index) - 1) : DateOfBar(d, k) = e.date

\* C5: every BUY event is at a bar i where short_ma > long_ma holds at bar i
\* and did not hold at bar i - 1 (absent moving averages count as not
\* holding), and no bar carries two BUY events.
C5_BuyOnlyAtUpwardCrossing ==
    /\ \A k \in 1..Len(signals_with_dates) :
           signals_with_dates[k].signal = "BUY" =>
               LET b == BarOf(data, signals_with_dates[k])
               IN  /\ ShortAbove(data, b)
                   /\ ~ShortAbove(data, b - 1)
    /\ \A k, l \in 1..Len(signals_with_dates) :
           /\ signals_with_dates[k].signal = "BUY"
           /\ signals_with_dates[l].signal = "BUY"
           /\ signals_with_dates[k].date = signals_with_dates[l].date
           => k = l

\* C5 witness: a second BUY, after a SELL, at a bar past a bar where the
\* short average was not above the long one
C5_Witness ==
    /\ pc = "returned"
    /\ Len(Trades(result.history)) >= 3
    /\ LET e == Trades(result.history)[3]
       IN  /\ e.signal = "BUY"
           /\ ShortAbove(data, BarOf(data, e))

\* The final bar already carries a BUY or SELL of the history built so far
FinalBarHasTrade ==
    /\ signals_with_dates # << >>
    /\ Last(signals_with_dates).date = Strftime(Last(data.index))

\* The step that leaves the loop and returns (lines 76-100)
Finishing == pc = "loop" /\ pc' = "returned"

\* current_value * final_close / entry_price in exact arithmetic, for the
\* position open at the end of the loop
UnrealizedValue ==
    RatDiv(RatMul(current_value.x, RatInt(Last(data.Close))),
           RatInt(entry_price.val))

\* C6, as stated: at the end of the run, if the position is LONG and the
\* final bar has no BUY or SELL of its own, a HOLD dated at the final bar
\* with position LONG is appended whose portfolio value is
\* (value at the open BUY) * final_close / entry_price; if the final bar has
\* its own BUY or SELL, no HOLD is added.
C6_HoldCarriesExactValue ==
    [][ Finishing =>
          /\ (current_position = 1 /\ ~FinalBarHasTrade) =>
                /\ signals_with_dates' =
                       Append(signals_with_dates, Last(signals_with_dates'))
                /\ Last(signals_with_dates').signal = "HOLD"
                /\ Last(signals_with_dates').date = Strftime(Last(data.index))
                /\ Last(signals_with_dates').position = 1
                /\ Last(signals_with_dates').portfolio_value.x
                       = UnrealizedValue
          /\ FinalBarHasTrade => signals_with_dates' = signals_with_dates
      ]_vars

\* C6, amended: the same, with the portfolio value of the HOLD being
\* round( current_value, 2 ) of the float64 the final valuation computed,
\* current_value * ( 1 + ( final_close - entry_price ) / entry_price ), which
\* in exact arithmetic is that mark-to-market value.
C6_HoldCarriesRoundedValue ==
    [][ Finishing =>
          /\ (current_position = 1 /\ ~FinalBarHasTrade) =>
                /\ signals_with_dates' =
                       Append(signals_with_dates, Last(signals_with_dates'))
                /\ Last(signals_with_dates').signal = "HOLD"
                /\ Last(signals_with_dates').date = Strftime(Last(data.index))
                /\ Last(signals_with_dates').position = 1
                /\ Last(signals_with_dates').portfolio_value
                       = Round2(current_value')
                /\ current_value'.x = UnrealizedValue
                /\ result'.final_value = current_value'
                /\ result'.history = signals_with_dates'
          /\ FinalBarHasTrade =>
                /\ signals_with_dates' = signals_with_dates
                /\ result'.history = signals_with_dates
      ]_vars

\* C6 witness: a run returned with an open position bought two or more bars
\* before the end, at a price other than the final close, after an earlier
\* round trip
C6_Witness ==
    /\ pc = "returned"
    /\ current_position = 1
    /\ Last(result.history).signal = "HOLD"
    /\ Last(result.history).position = 1
    /\ Len(result.history) >= 4
    /\ entry_price.val # Last(data.Close)
    /\ Last(result.history).portfolio_value # result.final_value

Absent(d, k) == IsNaN(iloc(d.short_ma, k)) \/ IsNaN(iloc(d.long_ma, k))

NoTradeBeforeLongWindow(history) ==
    \A k \in 1..Len(history) :
        IsTrade(history[k]) =>
            /\ BarOf(data, history[k]) >= long_window - 1
            /\ BarOf(data, history[k]) >= short_window - 1

\* C7: a bar where the short or the long moving average is absent emits no
\* BUY or SELL and leaves position, entry price and portfolio value as they
\* were; a series shorter than long_window yields no BUY/SELL and returns an
\* empty history or a single terminal HOLD; no BUY/SELL is dated before bar
\* long_window - 1.
C7_AbsentAverageSkipsBar ==
    [][ /\ (pc = "loop" /\ i < Len(data.Close) /\ Absent(data, i)) =>
              UNCHANGED <<current_position, entry_price, current_value,
                          signals_with_dates>>
        /\ NoTradeBeforeLongWindow(signals_with_dates')
        /\ (pc' = "returned" /\ Len(data.Close) < long_window) =>
              /\ Trades(result'.history) = << >>
              /\ Len(result'.history) <= 1
              /\ \A k \in 1..Len(result'.history) :
                     result'.history[k].signal = "HOLD"
      ]_vars

\* C7 witness: past a bar i - 1 >= 1 with a rising close where only the long
\* average is absent, the short one being defined, with nothing emitted
C7_Witness ==
    /\ pc = "loop"
    /\ i >= 2
    /\ Absent(data, i - 1)
    /\ ~IsNaN(iloc(data.short_ma, i - 1))
    /\ iloc(data.Close, i - 1) > iloc(data.Close, i - 2)
    /\ signals_with_dates = << >>

\* C8: in exact arithmetic, the final_value returned by calculate_signals,
\* which realizes returns only at SELL and at the final bar from the entry
\* price, equals the final equity of per-bar mark-to-market accounting
\* (unchanged by bars entered FLAT, multiplied by close_t / close_{t-1} by
\* bars entered LONG).
C8_FinalValueIsMarkToMarket ==
    pc = "returned" => result.final_value.x = reference_value

\* C8 witness: a run with a closed round trip that ends with an open position
\* and a final value other than the initial investment
C8_Witness ==
    /\ pc = "returned"
    /\ current_position = 1
    /\ Len(Trades(result.history)) >= 3
    /\ result.final_value # FromInt(initial_investment)
    /\ entry_price.val # Last(data.Close)

NoBuy(history) == \A k \in 1..Len(history) : history[k].signal # "BUY"

\* C9: if no BUY is ever emitted, final_value equals initial_investment
\* exactly, and calculate_returns reports profit = 0 and roi = 0.
C9_FlatRunKeepsInvestment ==
    /\ (pc = "returned" /\ NoBuy(result.history)) =>
           result.final_value = FromInt(initial_investment)
    /\ (m_pc = "reported" /\ NoBuy(result.history)) =>
           /\ portfolio_results[tickers[1]].final_value
                  = FromInt(initial_investment)
           /\ portfolio_results[tickers[1]].profit = FromInt(0)
           /\ portfolio_results[tickers[1]].roi = FromInt(0)

\* C9 witness: a reported run over moving prices with both averages defined
\* at the end and no BUY
C9_Witness ==
    /\ m_pc = "reported"
    /\ NoBuy(result.history)
    /\ Len(data.Close) >= 3
    /\ Last(data.Close) # data.Close[1]
    /\ ~Absent(data, Len(data.Close) - 1)
    /\ short_window # long_window

\* The portfolio value a BUY must carry: that of the SELL before it, or the
\* initial investment for the first BUY
ValueBeforeTrade(t, k) ==
    IF k = 1 THEN FromInt(initial_investment) ELSE t[k - 1].portfolio_value

\* C10: capital is static while FLAT: the portfolio value recorded on each
\* BUY equals the one recorded on the preceding SELL (or initial_investment
\* when there is none), and no step taken while FLAT changes current_value.
C10_CapitalStaticWhileFlat ==
    [][ /\ (pc = "loop" /\ current_position = 0) =>
              current_value' = current_value
        /\ LET t == Trades(signals_with_dates')
           IN  \A k \in 1..Len(t) :
                   t[k].signal = "BUY" =>
                       t[k].portfolio_value = ValueBeforeTrade(t, k)
      ]_vars

\* C10 witness: a second BUY after a SELL that changed the portfolio value
C10_Witness ==
    /\ pc = "loop"
    /\ Len(Trades(signals_with_dates)) >= 3
    /\ Trades(signals_with_dates)[2].portfolio_value
           # FromInt(initial_investment)
    /\ Trades(signals_with_dates)[3].signal = "BUY"

\* ---------------------------------------------------- claims about main
\* main has ended: it ran to its end, or its except clause caught an error
MainEnded == m_pc \in {"done", "failed"}

\* The fetch loop ran over the whole list (no call raised inside it)
FetchLoopCompleted == MainEnded /\ exception # "IndexError"

Fetched == DOMAIN data_dict

WasShown(t) == \E k \in 1..Len(shown) : shown[k] = t

\* C2: when the fetch of one ticker of the batch fails (fetch_stock_data
\* returns None), the signal history and the portfolio result of every other
\* ticker are still produced, and the totals are computed over the
\* successful tickers only.
C2_FailedFetchDoesNotAbortBatch ==
    ( /\ FetchLoopCompleted
      /\ Cardinality(Fetched) = Len(tickers) - 1
      /\ \A t \in Fetched : Len(data_dict[t].Close) > 0 )
    => /\ m_pc = "done"
       /\ \A t \in Fetched : WasShown(t)
       /\ DOMAIN portfolio_results = Fetched
       /\ totals.total_investment = Cardinality(Fetched) * initial_investment

\* A ticker for which the provider returned a frame of zero bars
EmptyFetched == { t \in Fetched : Len(data_dict[t].Close) = 0 }

\* C3: when the provider returns an empty series for one ticker of the
\* 3-ticker batch, that ticker is skipped, the run yields exactly 2
\* successful per-ticker results, and no error out of calculate_signals ends
\* the batch.
C3_EmptySeriesIsSkipped ==
    ( /\ MainEnded
      /\ Len(tickers) = 3
      /\ Cardinality(EmptyFetched) = 1 )
    => /\ exception = "none"
       /\ m_pc = "done"
       /\ Cardinality(DOMAIN portfolio_results) = 2
       /\ DOMAIN portfolio_results \cap EmptyFetched = {}

\* ------------------------------------------- claims about one call, cont.
\* Both moving averages are defined at bar k and equal
EqualAverages(d, k) ==
    /\ ~Absent(d, k)
    /\ ~Gt(iloc(d.short_ma, k), iloc(d.long_ma, k))
    /\ ~Lt(iloc(d.short_ma, k), iloc(d.long_ma, k))

\* C11: a bar at which short_ma == long_ma fires no transition: it emits no
\* event and leaves position, entry price and portfolio value unchanged,
\* whether the position is FLAT or LONG; a plateau of equal averages never
\* closes an open LONG position.
C11_EqualAveragesFireNothing ==
    [][ (pc = "loop" /\ i < Len(data.Close) /\ EqualAverages(data, i)) =>
            /\ i' = i + 1
            /\ UNCHANGED <<current_position, entry_price, current_value,
                           signals_with_dates>>
      ]_vars

\* C11 witness: a LONG position just carried over a bar of equal averages of
\* different windows
C11_Witness ==
    /\ pc = "loop"
    /\ i >= 3
    /\ short_window # long_window
    /\ EqualAverages(data, i - 1)
    /\ current_position = 1
    /\ Last(signals_with_dates).signal = "BUY"
    /\ BarOf(data, Last(signals_with_dates)) < i - 1

InScenario ==
    /\ data.Close = Scenario.closes
    /\ short_window = Scenario.short_window
    /\ long_window = Scenario.long_window
    /\ initial_investment = Scenario.initial_investment

\* C12: for closes [10,10,10,10,12,12,12,12,12,12], short_window = 2,
\* long_window = 4, initial_investment = 1000: the only BUY is at index 4,
\* no event precedes it, no SELL occurs, the portfolio value is 1000 up to
\* and at the BUY and changes only through bars after index 4, and the
\* history is exactly [BUY at index 4, HOLD at index 9 with position LONG].
C12_Scenario ==
    (InScenario /\ pc \in {"loop", "returned"}) =>
        /\ i <= 4 => signals_with_dates = << >>
        /\ i <= 5 => /\ current_value = FromInt(1000)
                     /\ reference_value = RatInt(1000)
        /\ i >= 5 =>
              /\ signals_with_dates[1].signal = "BUY"
              /\ signals_with_dates[1].date = DateOfBar(data, 4)
              /\ signals_with_dates[1].price = 12
              /\ signals_with_dates[1].portfolio_value = FromInt(1000)
              /\ current_position = 1
        /\ pc = "loop" => Len(signals_with_dates) <= 1
        /\ pc = "returned" =>
              /\ Len(result.history) = 2
              /\ result.history[1].signal = "BUY"
              /\ result.history[1].date = DateOfBar(data, 4)
              /\ result.history[2].signal = "HOLD"
              /\ result.history[2].date = DateOfBar(data, 9)
              /\ result.history[2].position = 1
              /\ result.signal = "HOLD"

\* C12 witness: the scenario has returned
C12_Witness ==
    /\ InScenario
    /\ pc = "returned"
    /\ Len(result.history) = 2
    /\ result.history[1].signal = "BUY"
    /\ result.history[2].signal = "HOLD"

\* A result reported as the explicit value 'Undefined'
IsUndefined(x) == "undefined" \in DOMAIN x

\* C13: division by zero is guarded: with initial_investment = 0,
\* calculate_returns ends with an explicit 'Undefined' roi; no exception is
\* raised and no infinite or NaN roi is passed on.
C13_ZeroInvestmentReportsUndefined ==
    (initial_investment = 0 /\ pc = "returned" /\ m_pc # "signals") =>
        /\ exception = "none"
        /\ m_pc = "reported"
        /\ ~IsNaN(portfolio_results[tickers[1]].roi)
        /\ IsUndefined(portfolio_results[tickers[1]].roi)

\* The operational range of a window length
MinOperationalWindow == 5
MaxOperationalWindow == 200

\* The window a rolling-mean column was computed with, as far as the frame
\* shows it: one more than its count of leading NaN bars
RECURSIVE LeadingNaN(_, _)
LeadingNaN(column, k) ==
    IF k > Len(column) \/ ~IsNaN(column[k]) THEN 0
    ELSE 1 + LeadingNaN(column, k + 1)

InOperationalRange(column) ==
    \/ LeadingNaN(column, 1) = Len(column)
    \/ /\ LeadingNaN(column, 1) + 1 >= MinOperationalWindow
       /\ LeadingNaN(column, 1) + 1 <= MaxOperationalWindow

WindowOutOfRange(w) == w < MinOperationalWindow \/ w > MaxOperationalWindow

\* C14: for a call with short_window or long_window outside [5, 200], the
\* windows actually used for short_ma and long_ma lie within [5, 200] (or
\* the call is rejected), and the run does not fail.
C14_WindowsClampedToRange ==
    ( /\ pc \in {"loop", "returned"}
      /\ WindowOutOfRange(short_window) \/ WindowOutOfRange(long_window) )
    => /\ InOperationalRange(data.short_ma)
       /\ InOperationalRange(data.long_ma)

\* C15: calculate_signals does not mutate the frame the caller passed in:
\* after the call it holds the same columns and values as before.
C15_CallerFrameUnchanged == [][data' = data]_vars

\* C16: a second call of calculate_signals on the same frame object, as the
\* first call left it, with the same windows and initial investment, returns
\* the same history and the same final_value.
C16_SecondCallReturnsTheSame ==
    (pc = "returned" /\ calls = 2) =>
        /\ result.history = first_result.history
        /\ result.final_value = first_result.final_value

\* C16 witness: a second call has returned a history with trades and a
\* final value other than the initial investment
C16_Witness ==
    /\ pc = "returned"
    /\ calls = 2
    /\ Len(Trades(result.history)) >= 2
    /\ result.final_value # FromInt(initial_investment)
    /\ "short_ma" \in data.columns

\* The last event of the history is `signal`, dated at bar k
LastEventIs(history, signal, k) ==
    /\ history # << >>
    /\ Last(history).signal = signal
    /\ Last(history).date = DateOfBar(data, k)

\* C17: after any bar i >= 1 at which both moving averages are defined and
\* differ, the position is LONG if and only if short_ma > long_ma at bar i:
\* a bar entered LONG with short_ma < long_ma emits a SELL and a bar entered
\* FLAT with short_ma > long_ma emits a BUY.
C17_PositionFollowsAverages ==
    [][ ( /\ pc = "loop" /\ i >= 1 /\ i < Len(data.Close)
          /\ ~Absent(data, i) /\ ~EqualAverages(data, i) )
        => /\ current_position' = 1 <=> ShortAbove(data, i)
           /\ (current_position = 1 /\ ~ShortAbove(data, i)) =>
                 /\ Len(signals_with_dates') = Len(signals_with_dates) + 1
                 /\ LastEventIs(signals_with_dates', "SELL", i)
           /\ (current_position = 0 /\ ShortAbove(data, i)) =>
                 /\ Len(signals_with_dates') = Len(signals_with_dates) + 1
                 /\ LastEventIs(signals_with_dates', "BUY", i)
           /\ current_position' = current_position =>
                 signals_with_dates' = signals_with_dates
      ]_vars

\* C17 witness: the position just closed by a SELL at bar i - 1, where the
\* short average is below the long one, after a BUY at bar 1
C17_Witness ==
    /\ pc = "loop"
    /\ i >= 3
    /\ current_position = 0
    /\ LastEventIs(signals_with_dates, "SELL", i - 1)
    /\ Lt(iloc(data.short_ma, i - 1), iloc(data.long_ma, i - 1))
    /\ signals_with_dates[1].date = DateOfBar(data, 1)

\* C18: for a non-empty series the returned history is non-empty, strictly
\* increasing in bar date (so at most one event per bar), and its last event
\* is dated at the final bar; a HOLD occurs only as the last event, and is
\* there exactly when the final bar has no BUY/SELL of its own, whatever the
\* final position; the returned signal is the kind of the last event.
C18_HistoryShape ==
    pc = "returned" =>
        LET h == result.history
        IN  /\ Len(data.Close) >= 1
            /\ Len(h) >= 1
            /\ \A k \in 1..(Len(h) - 1) : h[k].date < h[k + 1].date
            /\ Last(h).date = Strftime(Last(data.index))
            /\ \A k \in 1..(Len(h) - 1) : h[k].signal # "HOLD"
            /\ Last(h).signal = "HOLD" <=>
                   ~\E k \in 1..Len(h) :
                       /\ IsTrade(h[k])
                       /\ h[k].date = Strftime(Last(data.index))
            /\ Last(h).signal = "HOLD" =>
                   Last(h).position = current_position
            /\ result.signal = Last(h).signal

\* C18 witness: a run that ends FLAT after a round trip, with the terminal
\* HOLD at the final bar
C18_Witness ==
    /\ pc = "returned"
    /\ current_position = 0
    /\ Len(result.history) = 3
    /\ result.history[2].signal = "SELL"
    /\ result.history[3].signal = "HOLD"
    /\ result.history[3].position = 0
    /\ result.signal = "HOLD"

\* C19: between two loop iterations and after the loop, entry_price is set
\* if and only if current_position == 1, and when set it is the close of the
\* bar of the most recent BUY (so the `entry_price is not None` guards never
\* skip the return of an open position).
C19_EntryPriceIffLong ==
    pc \in {"loop", "returned"} =>
        /\ entry_price.set <=> current_position = 1
        /\ entry_price.set =>
               LET t == Trades(signals_with_dates)
               IN  /\ t # << >>
                   /\ Last(t).signal = "BUY"
                   /\ entry_price.val = iloc(data.Close, BarOf(data, Last(t)))
        /\ ~entry_price.set =>
               LET t == Trades(signals_with_dates)
               IN  t = << >> \/ Last(t).signal = "SELL"

\* C19 witness: a position re-opened by a second BUY at another price
C19_Witness ==
    /\ pc = "loop"
    /\ current_position = 1
    /\ Len(Trades(signals_with_dates)) = 3
    /\ entry_price.val # Trades(signals_with_dates)[1].price
    /\ entry_price.val = Trades(signals_with_dates)[3].price

\* C20: the portfolio value recorded on the last event of the returned
\* history is the returned final_value rounded to 2 decimals, whether the
\* last event is a terminal HOLD, a SELL on the final bar or a BUY on the
\* final bar.
C20_LastEventCarriesFinalValue ==
    pc = "returned" =>
        Last(result.history).portfolio_value = Round2(result.final_value)

\* C20 witness: a run whose last event is the HOLD of an open position whose
\* valuation at the final bar changed the portfolio value
C20_Witness ==
    /\ pc = "returned"
    /\ Last(result.history).signal = "HOLD"
    /\ current_position = 1
    /\ entry_price.val # Last(data.Close)
    /\ result.final_value # FromInt(initial_investment)
    /\ Last(result.history).portfolio_value = Round2(result.final_value)

\* Reachability of the other two cases of C20
C20_SellOnFinalBarReached ==
    /\ pc = "returned"
    /\ Last(result.history).signal = "SELL"
    /\ result.final_value # FromInt(initial_investment)

C20_BuyOnFinalBarReached ==
    /\ pc = "returned"
    /\ Last(result.history).signal = "BUY"
    /\ Len(result.history) = 3
    /\ result.final_value # FromInt(initial_investment)

====
